---- MODULE Spec2Model ----
(***************************************************************************)
(* DeepLabv3 (pytorch/pytorchcv/models/deeplabv3.py): the ASPP module, the *)
(* segmentation head, the factory path get_deeplabv3 / deeplabv3_*, and    *)
(* the forward computation on tensor shapes and values.                    *)
(***************************************************************************)
EXTENDS Integers, Sequences, FiniteSets, TLC

VARIABLES
    pc,           \* position in the factory path / constructors
    args,         \* the arguments of the factory call
    backbone,     \* the backbone's modules, as handed to DeepLabv3
    modules,      \* the modules registered on the DeepLabv3 object, in order
    asppMods,     \* the modules registered on the ASPP object under construction
    attrs,        \* plain attributes set on the DeepLabv3 object
    ri,           \* loop index over atrous_rates
    ip,           \* loop index of _init_params over named_modules()
    err,          \* the exception that left the factory path, or "none"
    returned,     \* get_deeplabv3 returned net
    loaderCalls,  \* download_model calls made by get_deeplabv3
    events,       \* order of the weight-writing steps
    training,     \* nn.Module.training of the net
    wv,           \* version of the weights (advanced by the external trainer)
    last,         \* the last forward call: its input and everything it computed
    ref,          \* an earlier inference-mode call, kept for comparison
    asppRun,      \* one evaluation of the ASPP module, branch by branch
    avgRun        \* one evaluation of the average-pool branch on pixel values

buildVars == <<pc, args, backbone, modules, asppMods, attrs, ri, ip, err, returned,
               loaderCalls, events>>

callVars == <<training, wv, last, ref>>

runVars == <<asppRun, avgRun>>

vars == <<buildVars, callVars, runVars>>

----------------------------------------------------------------------------
(* Python values *)

PyNone == [tag |-> "None", s |-> ""]

PyStr(s) == [tag |-> "str", s |-> s]

\* faulty variant: only None counts as a missing model_name
NameIsNone(model_name) == model_name.tag = "None"

\* `(model_name is None) or (not model_name)`
NameMissing(model_name) == model_name.tag = "None" \/ model_name.s = ""

----------------------------------------------------------------------------
(* Program constants *)

DefaultBackboneOutChannels == 2048

DefaultInChannels == 3

DefaultInSize == 224

VocClasses == 21

Ade20kClasses == 150

ChannelDivisor == 8

NumBranches == 5

atrous_rates == <<12, 24, 36>>

AsppDropRate == <<1, 2>>   \* p = 0.5

HeadDropRate == <<1, 10>>  \* p = 0.1

----------------------------------------------------------------------------
(* Modules *)

NoGeom == [cin |-> 0, cout |-> 0, k |-> 0, pad |-> 0, dil |-> 0, stride |-> 0]

Plain(path, owner, kind) ==
    [path |-> path, owner |-> owner, kind |-> kind, geom |-> NoGeom,
     weight |-> "absent", bias |-> "absent", inits |-> 0, p |-> <<0, 1>>]

\* nn.Conv2d as built by conv1x1 / the conv blocks: stride 1, no bias
Conv2d(path, owner, cin, cout, k, pad, dil) ==
    [Plain(path, owner, "Conv2d") EXCEPT
        !.geom = [cin |-> cin, cout |-> cout, k |-> k, pad |-> pad, dil |-> dil,
                  stride |-> 1],
        !.weight = "default"]

BatchNorm2d(path, owner) ==
    [Plain(path, owner, "BatchNorm2d") EXCEPT !.weight = "default", !.bias = "default"]

Dropout2d(path, owner, p) == [Plain(path, owner, "Dropout2d") EXCEPT !.p = p]

\* ConvBlock: conv, bn, activ
ConvBlock(path, owner, cin, cout, k, pad, dil) ==
    << Plain(path, owner, "ConvBlock"),
       Conv2d(Append(path, "conv"), owner, cin, cout, k, pad, dil),
       BatchNorm2d(Append(path, "bn"), owner),
       Plain(Append(path, "activ"), owner, "ReLU") >>

conv1x1(path, owner, cin, cout) == << Conv2d(path, owner, cin, cout, 1, 0, 1) >>

conv1x1_block(path, owner, cin, cout) == ConvBlock(path, owner, cin, cout, 1, 0, 1)

conv3x3_block(path, owner, cin, cout, pad, dil) ==
    ConvBlock(path, owner, cin, cout, 3, pad, dil)

ASPPAvgBranchInit(path, owner, cin, cout) ==
    << Plain(path, owner, "ASPPAvgBranch"),
       Plain(Append(path, "pool"), owner, "AdaptiveAvgPool2d") >>
    \o conv1x1_block(Append(path, "conv"), owner, cin, cout)

mid_channels(in_channels) == in_channels \div ChannelDivisor

\* faulty variant: the pooling branch is forgotten in the projection's input
ProjectInChannelsOfFour(in_channels) == (NumBranches - 1) * mid_channels(in_channels)

project_in_channels(in_channels) == NumBranches * mid_channels(in_channels)

pool_out_channels(backbone_out_channels) == backbone_out_channels \div ChannelDivisor

\* faulty variant: the divisibility assertion is missing
AsppAssertSkipped(in_channels) == TRUE

AsppAssertOk(in_channels) == in_channels % ChannelDivisor = 0

HeadAssertOk(in_channels) == in_channels > 0

BranchName(i) == <<"branch1", "branch2", "branch3", "branch4", "branch5">>[i]

\* faulty variant: the padding is left at conv3x3_block's default
RateBranchDefaultPadding(i, in_channels) ==
    conv3x3_block(<<"pool", "branches", BranchName(i + 1)>>, "pool", in_channels,
                  mid_channels(in_channels), 1, atrous_rates[i])

\* faulty variant: the rates are taken in the opposite order
RateBranchReversed(i, in_channels) ==
    LET r == atrous_rates[Len(atrous_rates) + 1 - i]
    IN  conv3x3_block(<<"pool", "branches", BranchName(i + 1)>>, "pool", in_channels,
                      mid_channels(in_channels), r, r)

\* the i-th dilated branch of the loop over atrous_rates
RateBranch(i, in_channels) ==
    conv3x3_block(<<"pool", "branches", BranchName(i + 1)>>, "pool", in_channels,
                  mid_channels(in_channels), atrous_rates[i], atrous_rates[i])

----------------------------------------------------------------------------
(* The backbone: resnet50/101(pretrained, dilated).features[:-1], opaque.    *)
(* A variant fixes what the backbone is: whether a convolution of it has a  *)
(* bias, its spatial reduction, and how many channels it really produces.   *)

BackboneVariants == {1, 2, 3, 4}

BackboneHasBias(variant) == variant = 2

BackboneReduction(variant) ==
    CASE variant = 1 -> 8 [] variant = 2 -> 16 [] variant = 3 -> 1 [] OTHER -> 8

\* channels produced beyond the configured backbone_out_channels (a mismatch)
BackboneExtraChannels(variant) == IF variant = 4 THEN 8 ELSE 0

BackboneWeights(pretrained_backbone) ==
    IF pretrained_backbone THEN "pretrained_backbone" ELSE "default"

BackboneModules(variant, out_channels, in_channels, pretrained_backbone) ==
    LET w == BackboneWeights(pretrained_backbone)
        c1 == [Conv2d(<<"backbone", "init_block", "conv">>, "backbone",
                      in_channels, out_channels, 3, 1, 1) EXCEPT
                  !.weight = w,
                  !.bias = IF BackboneHasBias(variant) THEN w ELSE "absent"]
        b1 == [BatchNorm2d(<<"backbone", "init_block", "bn">>, "backbone") EXCEPT
                  !.weight = w, !.bias = w]
        c2 == [Conv2d(<<"backbone", "stage1", "conv">>, "backbone", out_channels,
                      out_channels + BackboneExtraChannels(variant), 3, 2, 2)
                  EXCEPT !.weight = w]
    IN  << Plain(<<"backbone">>, "backbone", "Sequential"), c1, b1,
           Plain(<<"backbone", "init_block", "activ">>, "backbone", "ReLU"), c2 >>

----------------------------------------------------------------------------
(* The constructors as a whole *)

AsppInit(in_channels) ==
    << Plain(<<"pool">>, "pool", "AtrousSpatialPyramidPooling"),
       Plain(<<"pool", "branches">>, "pool", "Concurrent") >>
    \o conv1x1_block(<<"pool", "branches", BranchName(1)>>, "pool", in_channels,
                     mid_channels(in_channels))
    \o RateBranch(1, in_channels) \o RateBranch(2, in_channels)
    \o RateBranch(3, in_channels)
    \o ASPPAvgBranchInit(<<"pool", "branches", BranchName(5)>>, "pool", in_channels,
                         mid_channels(in_channels))
    \o conv1x1(<<"pool", "conv">>, "pool", project_in_channels(in_channels),
               mid_channels(in_channels))
    \o << Dropout2d(<<"pool", "dropout">>, "pool", AsppDropRate) >>

\* faulty variant: the traversal stops at the modules the head created itself
InitVisitsOwnOnly(mods) == {i \in 1 .. Len(mods) : mods[i].owner # "backbone"}

\* named_modules(): the modules _init_params visits, by position
InitVisits(mods) == 1 .. Len(mods)

IsConv(m) == m.kind = "Conv2d"

\* faulty variant: the bias of a convolution is left as it was
InitModuleKeepBias(m) ==
    IF m.kind = "Conv2d"
    THEN [m EXCEPT !.weight = "kaiming_uniform", !.inits = m.inits + 1]
    ELSE m

\* the body of the loop of _init_params for one module
InitModule(m) ==
    IF IsConv(m)
    THEN [m EXCEPT !.weight = "kaiming_uniform",
                   !.bias = IF m.bias # "absent" THEN "zero" ELSE m.bias,
                   !.inits = m.inits + 1]
    ELSE m

\* the modules of a DeepLabv3 whose construction succeeded
DeepLabv3Init(bb, backbone_out_channels, num_classes) ==
    LET built ==
            << Plain(<< >>, "root", "DeepLabv3") >> \o bb
            \o AsppInit(backbone_out_channels)
            \o conv3x3_block(<<"conv1">>, "head",
                             pool_out_channels(backbone_out_channels),
                             pool_out_channels(backbone_out_channels), 1, 1)
            \o << Dropout2d(<<"dropout">>, "head", HeadDropRate) >>
            \o conv1x1(<<"conv2">>, "head",
                       pool_out_channels(backbone_out_channels), num_classes)
    IN  [i \in 1 .. Len(built) |->
            IF i \in InitVisits(built) THEN InitModule(built[i]) ELSE built[i]]

----------------------------------------------------------------------------
(* Tensors: a shape and a value. The value is the expression that computed *)
(* it, so two tensors are equal iff they were computed the same way from   *)
(* the same input, weights and random draws.                               *)

NoTerm == [op |-> "none", path |-> << >>, w |-> "", n |-> 0, rnd |-> "", in |-> << >>]

Term(op, path, w, n, rnd, in) ==
    [op |-> op, path |-> path, w |-> w, n |-> n, rnd |-> rnd, in |-> in]

ErrTensor == [status |-> "error", b |-> 0, c |-> 0, h |-> 0, w |-> 0, val |-> NoTerm]

Tensor(b, c, h, w, val) ==
    [status |-> "ok", b |-> b, c |-> c, h |-> h, w |-> w, val |-> val]

InputTensor(b, c, h, w, id) == Tensor(b, c, h, w, Term("input", << >>, "", id, "", << >>))

Mod(mods, path) == mods[CHOOSE i \in 1 .. Len(mods) : mods[i].path = path]

\* out = floor((in + 2*padding - dilation*(kernel-1) - 1)/stride) + 1
ConvOutSize(n, g) == ((n + 2 * g.pad - g.dil * (g.k - 1) - 1) \div g.stride) + 1

\* the padded input must hold the dilated kernel
ConvFits(n, g) == n + 2 * g.pad >= g.dil * (g.k - 1) + 1

Conv2dForward(m, v, x) ==
    IF \/ x.status # "ok"
       \/ x.c # m.geom.cin
       \/ ~ConvFits(x.h, m.geom)
       \/ ~ConvFits(x.w, m.geom)
    THEN ErrTensor
    ELSE Tensor(x.b, m.geom.cout, ConvOutSize(x.h, m.geom), ConvOutSize(x.w, m.geom),
                Term("conv2d", m.path, m.weight, v, "", <<x.val>>))

\* normalization and activation act per element
Pointwise(m, v, x) ==
    IF x.status # "ok" THEN ErrTensor
    ELSE [x EXCEPT !.val = Term(m.kind, m.path, m.weight, v, "", <<x.val>>)]

ConvBlockForward(mods, path, v, x) ==
    Pointwise(Mod(mods, Append(path, "activ")), v,
        Pointwise(Mod(mods, Append(path, "bn")), v,
            Conv2dForward(Mod(mods, Append(path, "conv")), v, x)))

\* nn.Dropout2d: random channel mask in training mode, identity otherwise
DropoutActive(train, p) == train /\ p[1] > 0

Dropout2dForward(m, train, rnd, x) ==
    IF x.status # "ok" THEN ErrTensor
    ELSE IF DropoutActive(train, m.p)
         THEN [x EXCEPT !.val = Term("dropout2d", m.path, "", 0, rnd, <<x.val>>)]
         ELSE x

\* faulty variant: the pool keeps a 2 x 2 grid
PoolOutputSizeTwo == 1 + 1

\* nn.AdaptiveAvgPool2d(1)
PoolOutputSize == 1

AdaptiveAvgPool2dForward(m, x) ==
    IF x.status # "ok" \/ x.h < 1 \/ x.w < 1 THEN ErrTensor
    ELSE Tensor(x.b, x.c, PoolOutputSize, PoolOutputSize,
                Term(m.kind, m.path, "", 0, "", <<x.val>>))

\* F.interpolate(x, size=size, mode="bilinear", align_corners=True)
Interpolate(x, size) ==
    IF x.status # "ok" \/ size[1] < 1 \/ size[2] < 1 THEN ErrTensor
    ELSE Tensor(x.b, x.c, size[1], size[2],
                Term("interpolate", << >>, "bilinear_align_corners", 0, "", <<x.val>>))

\* the size ASPPAvgBranch.forward upsamples to
AvgUpsampleSize(h, w) == <<h, w>>

ASPPAvgBranchForward(mods, path, v, x) ==
    LET h == x.h
        w == x.w
        pooled == AdaptiveAvgPool2dForward(Mod(mods, Append(path, "pool")), x)
        conved == ConvBlockForward(mods, Append(path, "conv"), v, pooled)
    IN  Interpolate(conved, AvgUpsampleSize(h, w))

\* the children of Concurrent, in the order they were added
BranchPaths(mods) ==
    LET kids == SelectSeq(mods, LAMBDA m :
                    Len(m.path) = 3 /\ SubSeq(m.path, 1, 2) = <<"pool", "branches">>)
    IN  [i \in 1 .. Len(kids) |-> kids[i].path]

BranchForward(mods, path, v, x) ==
    IF Mod(mods, path).kind = "ASPPAvgBranch"
    THEN ASPPAvgBranchForward(mods, path, v, x)
    ELSE ConvBlockForward(mods, path, v, x)

RECURSIVE SumChannels(_)
SumChannels(ts) == IF ts = << >> THEN 0 ELSE Head(ts).c + SumChannels(Tail(ts))

\* torch.cat(outs, dim=1): all sizes but the channel count must agree
Cat(ts) ==
    IF \/ ts = << >>
       \/ \E i \in 1 .. Len(ts) :
             \/ ts[i].status # "ok"
             \/ ts[i].b # ts[1].b \/ ts[i].h # ts[1].h \/ ts[i].w # ts[1].w
    THEN ErrTensor
    ELSE Tensor(ts[1].b, SumChannels(ts), ts[1].h, ts[1].w,
                Term("cat", << >>, "", 0, "", [i \in 1 .. Len(ts) |-> ts[i].val]))

\* AtrousSpatialPyramidPooling.forward, with what it computed on the way
AsppForward(mods, train, v, rnd, x) ==
    LET ps == BranchPaths(mods)
        outs == [i \in 1 .. Len(ps) |-> BranchForward(mods, ps[i], v, x)]
        cat == Cat(outs)
        y == Conv2dForward(Mod(mods, <<"pool", "conv">>), v, cat)
    IN  [branches |-> outs, cat |-> cat,
         out |-> Dropout2dForward(Mod(mods, <<"pool", "dropout">>), train, rnd, y)]

\* the backbone: (B, in_channels, H, W) -> (B, channels, ceil(H/r), ceil(W/r))
BackboneForward(mods, variant, v, x) ==
    LET first == Mod(mods, <<"backbone", "init_block", "conv">>)
        lastc == Mod(mods, <<"backbone", "stage1", "conv">>)
        r == BackboneReduction(variant)
    IN  IF x.status # "ok" \/ x.c # first.geom.cin \/ x.h < 1 \/ x.w < 1 THEN ErrTensor
        ELSE Tensor(x.b, lastc.geom.cout, ((x.h - 1) \div r) + 1, ((x.w - 1) \div r) + 1,
                    Term("backbone", <<"backbone">>, first.weight, v, "", <<x.val>>))

\* faulty variant: the upsample uses the configured in_size
HeadUpsampleSizeStored(in_size, h, w) == in_size

\* the size DeepLabv3.forward upsamples to: h, w of this call's input
HeadUpsampleSize(in_size, h, w) == <<h, w>>

\* faulty variant: forward keeps the size of its input on the module
AttrsAfterForwardStoresSize(at, h, w) == [at EXCEPT !.in_size = <<h, w>>]

\* the attributes of the net after a forward call: forward assigns none
AttrsAfterForward(at, h, w) == at

\* DeepLabv3.forward, with what it computed on the way
DeepLabv3Forward(mods, at, variant, train, v, rnd, x) ==
    LET h == x.h
        w == x.w
        feat == BackboneForward(mods, variant, v, x)
        aspp == AsppForward(mods, train, v, rnd, feat)
        refine == ConvBlockForward(mods, <<"conv1">>, v, aspp.out)
        dropped == Dropout2dForward(Mod(mods, <<"dropout">>), train, rnd, refine)
        logits == Conv2dForward(Mod(mods, <<"conv2">>), v, dropped)
    IN  [feat |-> feat, branches |-> aspp.branches, cat |-> aspp.cat,
         aspp |-> aspp.out, refine |-> refine, logits |-> logits,
         out |-> Interpolate(logits, HeadUpsampleSize(at.in_size, h, w))]

NoCall ==
    [called |-> FALSE, x |-> ErrTensor, training |-> FALSE, wv |-> 0,
     feat |-> ErrTensor, branches |-> << >>, cat |-> ErrTensor, aspp |-> ErrTensor,
     refine |-> ErrTensor, logits |-> ErrTensor, out |-> ErrTensor]

PendingTensor == [ErrTensor EXCEPT !.status = "pending"]

NoAsppRun ==
    [pc |-> "idle", x0 |-> ErrTensor, x |-> ErrTensor, outs |-> << >>, done |-> << >>,
     cat |-> PendingTensor, out |-> PendingTensor, refine |-> PendingTensor]

NoAvgRun ==
    [pc |-> "idle", b |-> 0, c |-> 0, input |-> << >>, plane |-> << >>, pre |-> << >>,
     weight |-> 0, shift |-> 0, size |-> <<0, 0>>, cout |-> 0]

\* no call kept; `others` tells that calls on other inputs followed the kept one
NoRef == [others |-> FALSE] @@ NoCall

----------------------------------------------------------------------------
(* Factory calls *)

FactoryNames == {"deeplabv3_resnet50_voc", "deeplabv3_resnet101_voc",
                 "deeplabv3_resnet50_ade20k"}

FactoryClasses(entry) ==
    IF entry = "deeplabv3_resnet50_ade20k" THEN Ade20kClasses ELSE VocClasses

ChannelChoices == {7, 8, 16, 20, DefaultBackboneOutChannels}

InChannelChoices == {0, DefaultInChannels}

ArgSet ==
    [entry : FactoryNames \cup {"get_deeplabv3"},
     pretrained_backbone : BOOLEAN,
     pretrained : BOOLEAN,
     model_name : {PyNone, PyStr(""), PyStr("deeplabv3_custom")}
                  \cup {PyStr(n) : n \in FactoryNames},
     root : {"~/.torch/models"},
     num_classes : {VocClasses, Ade20kClasses},
     backbone_out_channels : ChannelChoices,
     in_channels : InChannelChoices,
     in_size : {<<DefaultInSize, DefaultInSize>>},
     variant : BackboneVariants]

\* a factory fixes model_name and the default num_classes; a direct call of
\* get_deeplabv3 passes any model_name
ValidArgs(a) ==
    IF a.entry \in FactoryNames
    THEN a.model_name = PyStr(a.entry) /\ a.num_classes = FactoryClasses(a.entry)
    ELSE a.model_name \notin {PyStr(n) : n \in FactoryNames}

UnsetAttrs == [in_size |-> <<0, 0>>, num_classes |-> 0, set |-> FALSE]

InitBuild ==
    /\ args \in {a \in ArgSet : ValidArgs(a)}
    /\ pc = "factory"
    /\ backbone = << >>
    /\ modules = << >>
    /\ asppMods = << >>
    /\ attrs = UnsetAttrs
    /\ ri = 0
    /\ ip = 0
    /\ err = "none"
    /\ returned = FALSE
    /\ loaderCalls = << >>
    /\ events = << >>
    /\ training = TRUE
    /\ wv = 0
    /\ last = NoCall
    /\ ref = NoRef
    /\ asppRun = NoAsppRun
    /\ avgRun = NoAvgRun

Raise(e) ==
    /\ err' = e
    /\ pc' = "raised"

\* deeplabv3_*: backbone = resnetNN(pretrained=pretrained_backbone, dilated=True).features[:-1]
MakeBackbone ==
    /\ UNCHANGED <<callVars, runVars>>
    /\ pc = "factory"
    /\ backbone' = BackboneModules(args.variant, args.backbone_out_channels,
                                   args.in_channels, args.pretrained_backbone)
    /\ events' = IF args.pretrained_backbone
                 THEN Append(events, "backbone_load") ELSE events
    /\ pc' = "head_assert"
    /\ UNCHANGED <<args, modules, asppMods, attrs, ri, ip, err, returned, loaderCalls>>

\* DeepLabv3.__init__: assert, in_size, num_classes
HeadAssert ==
    /\ UNCHANGED <<callVars, runVars>>
    /\ pc = "head_assert"
    /\ IF HeadAssertOk(args.in_channels)
       THEN /\ attrs' = [in_size |-> args.in_size, num_classes |-> args.num_classes,
                         set |-> TRUE]
            /\ modules' = << Plain(<< >>, "root", "DeepLabv3") >>
            /\ pc' = "head_backbone"
            /\ err' = err
       ELSE /\ Raise("AssertionError")
            /\ UNCHANGED <<attrs, modules>>
    /\ UNCHANGED <<args, backbone, asppMods, ri, ip, returned, loaderCalls, events>>

\* self.backbone = backbone
HeadBackbone ==
    /\ UNCHANGED <<callVars, runVars>>
    /\ pc = "head_backbone"
    /\ modules' = modules \o backbone
    /\ pc' = "aspp_assert"
    /\ UNCHANGED <<args, backbone, asppMods, attrs, ri, ip, err, returned,
                   loaderCalls, events>>

\* AtrousSpatialPyramidPooling.__init__: assert (in_channels % 8 == 0)
AsppAssert ==
    /\ UNCHANGED <<callVars, runVars>>
    /\ pc = "aspp_assert"
    /\ IF AsppAssertOk(args.backbone_out_channels)
       THEN /\ asppMods' = << Plain(<<"pool">>, "pool", "AtrousSpatialPyramidPooling") >>
            /\ pc' = "aspp_container"
            /\ err' = err
       ELSE /\ Raise("AssertionError")
            /\ UNCHANGED asppMods
    /\ UNCHANGED <<args, backbone, modules, attrs, ri, ip, returned, loaderCalls, events>>

\* self.branches = Concurrent()
AsppContainer ==
    /\ UNCHANGED <<callVars, runVars>>
    /\ pc = "aspp_container"
    /\ asppMods' = Append(asppMods, Plain(<<"pool", "branches">>, "pool", "Concurrent"))
    /\ pc' = "aspp_branch1"
    /\ UNCHANGED <<args, backbone, modules, attrs, ri, ip, err, returned,
                   loaderCalls, events>>

AsppBranch1 ==
    /\ UNCHANGED <<callVars, runVars>>
    /\ pc = "aspp_branch1"
    /\ asppMods' = asppMods \o
           conv1x1_block(<<"pool", "branches", BranchName(1)>>, "pool",
                         args.backbone_out_channels,
                         mid_channels(args.backbone_out_channels))
    /\ ri' = 1
    /\ pc' = "aspp_rates"
    /\ UNCHANGED <<args, backbone, modules, attrs, ip, err, returned, loaderCalls, events>>

\* for i, atrous_rate in enumerate(atrous_rates)
AsppRateBranch ==
    /\ UNCHANGED <<callVars, runVars>>
    /\ pc = "aspp_rates"
    /\ IF ri <= Len(atrous_rates)
       THEN /\ asppMods' = asppMods \o RateBranch(ri, args.backbone_out_channels)
            /\ ri' = ri + 1
            /\ pc' = pc
       ELSE /\ pc' = "aspp_branch5"
            /\ UNCHANGED <<asppMods, ri>>
    /\ UNCHANGED <<args, backbone, modules, attrs, ip, err, returned, loaderCalls, events>>

AsppBranch5 ==
    /\ UNCHANGED <<callVars, runVars>>
    /\ pc = "aspp_branch5"
    /\ asppMods' = asppMods \o
           ASPPAvgBranchInit(<<"pool", "branches", BranchName(5)>>, "pool",
                             args.backbone_out_channels,
                             mid_channels(args.backbone_out_channels))
    /\ pc' = "aspp_conv"
    /\ UNCHANGED <<args, backbone, modules, attrs, ri, ip, err, returned,
                   loaderCalls, events>>

AsppConv ==
    /\ UNCHANGED <<callVars, runVars>>
    /\ pc = "aspp_conv"
    /\ asppMods' = asppMods \o
           conv1x1(<<"pool", "conv">>, "pool",
                   project_in_channels(args.backbone_out_channels),
                   mid_channels(args.backbone_out_channels))
    /\ pc' = "aspp_dropout"
    /\ UNCHANGED <<args, backbone, modules, attrs, ri, ip, err, returned,
                   loaderCalls, events>>

AsppDropout ==
    /\ UNCHANGED <<callVars, runVars>>
    /\ pc = "aspp_dropout"
    /\ asppMods' = Append(asppMods, Dropout2d(<<"pool", "dropout">>, "pool", AsppDropRate))
    /\ pc' = "head_pool"
    /\ UNCHANGED <<args, backbone, modules, attrs, ri, ip, err, returned,
                   loaderCalls, events>>

\* self.pool = AtrousSpatialPyramidPooling(...): the finished ASPP is registered
HeadPool ==
    /\ UNCHANGED <<callVars, runVars>>
    /\ pc = "head_pool"
    /\ modules' = modules \o asppMods
    /\ pc' = "head_conv1"
    /\ UNCHANGED <<args, backbone, asppMods, attrs, ri, ip, err, returned,
                   loaderCalls, events>>

HeadConv1 ==
    /\ UNCHANGED <<callVars, runVars>>
    /\ pc = "head_conv1"
    /\ modules' = modules \o
           conv3x3_block(<<"conv1">>, "head",
                         pool_out_channels(args.backbone_out_channels),
                         pool_out_channels(args.backbone_out_channels), 1, 1)
    /\ pc' = "head_dropout"
    /\ UNCHANGED <<args, backbone, asppMods, attrs, ri, ip, err, returned,
                   loaderCalls, events>>

HeadDropout ==
    /\ UNCHANGED <<callVars, runVars>>
    /\ pc = "head_dropout"
    /\ modules' = Append(modules, Dropout2d(<<"dropout">>, "head", HeadDropRate))
    /\ pc' = "head_conv2"
    /\ UNCHANGED <<args, backbone, asppMods, attrs, ri, ip, err, returned,
                   loaderCalls, events>>

HeadConv2 ==
    /\ UNCHANGED <<callVars, runVars>>
    /\ pc = "head_conv2"
    /\ modules' = modules \o
           conv1x1(<<"conv2">>, "head",
                   pool_out_channels(args.backbone_out_channels), args.num_classes)
    /\ ip' = 1
    /\ events' = Append(events, "init_params")
    /\ pc' = "init_params"
    /\ UNCHANGED <<args, backbone, asppMods, attrs, ri, err, returned, loaderCalls>>

InitParamsStep ==
    /\ UNCHANGED <<callVars, runVars>>
    /\ pc = "init_params"
    /\ ip <= Len(modules)
    /\ modules' = IF ip \in InitVisits(modules)
                  THEN [modules EXCEPT ![ip] = InitModule(modules[ip])]
                  ELSE modules
    /\ ip' = ip + 1
    /\ UNCHANGED <<pc, args, backbone, asppMods, attrs, ri, err, returned,
                   loaderCalls, events>>

InitParamsDone ==
    /\ UNCHANGED <<callVars, runVars>>
    /\ pc = "init_params"
    /\ ip > Len(modules)
    /\ pc' = "constructed"
    /\ UNCHANGED <<args, backbone, modules, asppMods, attrs, ri, ip, err, returned,
                   loaderCalls, events>>

\* get_deeplabv3: if pretrained: if model_name missing: raise ValueError
PretrainedCheck ==
    /\ UNCHANGED <<callVars, runVars>>
    /\ pc = "constructed"
    /\ IF args.pretrained
       THEN IF NameMissing(args.model_name)
            THEN Raise("ValueError")
            ELSE pc' = "download" /\ err' = err
       ELSE pc' = "return" /\ err' = err
    /\ UNCHANGED <<args, backbone, modules, asppMods, attrs, ri, ip, returned,
                   loaderCalls, events>>

\* load_state_dict: every parameter of the net is overwritten
LoadState(m) ==
    [m EXCEPT !.weight = IF m.weight # "absent" THEN "pretrained_model" ELSE m.weight,
              !.bias = IF m.bias # "absent" THEN "pretrained_model" ELSE m.bias]

\* download_model(net, model_name, local_model_store_dir_path=root); the
\* loader either fills the weights in place or raises
Download ==
    /\ UNCHANGED <<callVars, runVars>>
    /\ pc = "download"
    /\ loaderCalls' = Append(loaderCalls,
           [net |-> "net", model_name |-> args.model_name.s, root |-> args.root])
    /\ \/ /\ modules' = [i \in 1 .. Len(modules) |-> LoadState(modules[i])]
          /\ events' = Append(events, "model_load")
          /\ pc' = "return"
          /\ err' = err
       \/ /\ Raise("LoaderError")
          /\ UNCHANGED <<modules, events>>
    /\ UNCHANGED <<args, backbone, asppMods, attrs, ri, ip, returned>>

Return ==
    /\ UNCHANGED <<callVars, runVars>>
    /\ pc = "return"
    /\ returned' = TRUE
    /\ pc' = "done"
    /\ UNCHANGED <<args, backbone, modules, asppMods, attrs, ri, ip, err,
                   loaderCalls, events>>

NextBuild ==
    \/ MakeBackbone
    \/ HeadAssert
    \/ HeadBackbone
    \/ AsppAssert
    \/ AsppContainer
    \/ AsppBranch1
    \/ AsppRateBranch
    \/ AsppBranch5
    \/ AsppConv
    \/ AsppDropout
    \/ HeadPool
    \/ HeadConv1
    \/ HeadDropout
    \/ HeadConv2
    \/ InitParamsStep
    \/ InitParamsDone
    \/ PretrainedCheck
    \/ Download
    \/ Return

SpecBuild == InitBuild /\ [][NextBuild]_vars

----------------------------------------------------------------------------
(* Forward calls on a model a factory returned *)

MaxBatch == 2

MaxInputs == 2

MaxWeightVersion == 1

InputSizes == {1, 100, DefaultInSize}

\* the random draws of the dropout layers in one call
Draws == {"draw_a", "draw_b"}

CallInputs(in_channels) ==
    {InputTensor(b, in_channels, h, w, 1) :
        b \in 1 .. MaxBatch, h \in InputSizes, w \in InputSizes}

DetInputs(in_channels) ==
    {InputTensor(1, in_channels, h, h, id) : h \in {1, DefaultInSize}, id \in 1 .. MaxInputs}

\* the state get_deeplabv3 leaves when it returns without a pretrained load
Returned(a) ==
    /\ args = a
    /\ pc = "done"
    /\ backbone = BackboneModules(a.variant, a.backbone_out_channels, a.in_channels,
                                  a.pretrained_backbone)
    /\ modules = DeepLabv3Init(backbone, a.backbone_out_channels, a.num_classes)
    /\ asppMods = AsppInit(a.backbone_out_channels)
    /\ attrs = [in_size |-> a.in_size, num_classes |-> a.num_classes, set |-> TRUE]
    /\ ri = Len(atrous_rates) + 1
    /\ ip = Len(modules) + 1
    /\ err = "none"
    /\ returned = TRUE
    /\ loaderCalls = << >>
    /\ events = IF a.pretrained_backbone THEN <<"backbone_load", "init_params">>
                ELSE <<"init_params">>

CallArgs ==
    {a \in ArgSet :
        /\ ValidArgs(a)
        /\ ~a.pretrained /\ ~a.pretrained_backbone
        /\ a.entry \in FactoryNames
        /\ HeadAssertOk(a.in_channels)
        /\ AsppAssertOk(a.backbone_out_channels)}

DetArgs == {a \in CallArgs : a.entry = "deeplabv3_resnet50_voc" /\ a.variant \in {1, 2}
                             /\ a.backbone_out_channels = DefaultBackboneOutChannels}

InitCall ==
    /\ \E a \in CallArgs : Returned(a)
    /\ training = TRUE
    /\ wv = 0
    /\ last = NoCall
    /\ ref = NoRef
    /\ asppRun = NoAsppRun
    /\ avgRun = NoAvgRun

InitDet ==
    /\ \E a \in DetArgs : Returned(a)
    /\ training = TRUE
    /\ wv = 0
    /\ last = NoCall
    /\ ref = NoRef
    /\ asppRun = NoAsppRun
    /\ avgRun = NoAvgRun

\* y = net(x)
Forward(x, rnd) ==
    /\ pc = "done" /\ returned
    /\ last' = [called |-> TRUE, x |-> x, training |-> training, wv |-> wv]
               @@ DeepLabv3Forward(modules, attrs, args.variant, training, wv, rnd, x)
    /\ attrs' = AttrsAfterForward(attrs, x.h, x.w)
    /\ ref' = IF ref.called /\ ref.x # x THEN [ref EXCEPT !.others = TRUE] ELSE ref
    /\ UNCHANGED <<pc, args, backbone, modules, asppMods, ri, ip, err, returned,
                   loaderCalls, events, training, wv, runVars>>

CallForward == \E x \in CallInputs(args.in_channels), rnd \in Draws : Forward(x, rnd)

DetForward == \E x \in DetInputs(args.in_channels), rnd \in Draws : Forward(x, rnd)

\* net.train() / net.eval()
SetMode ==
    /\ pc = "done" /\ returned
    /\ training' = ~training
    /\ UNCHANGED <<buildVars, wv, last, ref, runVars>>

\* the external training procedure writes the weights
TrainStep ==
    /\ pc = "done" /\ returned
    /\ wv < MaxWeightVersion
    /\ wv' = wv + 1
    /\ UNCHANGED <<buildVars, training, last, ref, runVars>>

\* keep the last call, made in inference mode, to compare later calls with
Keep ==
    /\ last.called /\ ~last.training /\ last.out.status = "ok"
    /\ ~(ref.called /\ ref.x = last.x /\ ref.wv = last.wv /\ ~ref.others)
    /\ ref' = [others |-> FALSE] @@ last
    /\ UNCHANGED <<buildVars, training, wv, last, runVars>>

NextCall ==
    \/ CallForward
    \/ SetMode

SpecCall == InitCall /\ [][NextCall]_vars

NextDet ==
    \/ DetForward
    \/ SetMode
    \/ TrainStep
    \/ Keep

SpecDet == InitDet /\ [][NextDet]_vars

\* the state the factory path ends in is the state the calls start from
BuildMatchesConstructor ==
    (pc = "done" /\ ~args.pretrained) =>
        /\ modules = DeepLabv3Init(backbone, args.backbone_out_channels, args.num_classes)
        /\ asppMods = AsppInit(args.backbone_out_channels)
        /\ attrs = [in_size |-> args.in_size, num_classes |-> args.num_classes,
                    set |-> TRUE]
        /\ ri = Len(atrous_rates) + 1 /\ ip = Len(modules) + 1
        /\ events = IF args.pretrained_backbone
                    THEN <<"backbone_load", "init_params">> ELSE <<"init_params">>

----------------------------------------------------------------------------
(* One evaluation of the ASPP module, one branch at a time. The branches of *)
(* Concurrent are independent: they may be evaluated in any order.          *)

MaxFeat == 40

FeatWidths == {1, 37}

AsppArgs == {a \in CallArgs : a.entry = "deeplabv3_resnet50_voc" /\ a.variant = 1
                              /\ a.backbone_out_channels = 16}

InitAspp ==
    /\ \E a \in AsppArgs : Returned(a)
    /\ training = FALSE
    /\ wv = 0
    /\ last = NoCall
    /\ ref = NoRef
    /\ avgRun = NoAvgRun
    /\ \E h \in 1 .. MaxFeat, w \in FeatWidths :
          LET x == InputTensor(1, args.backbone_out_channels, h, w, 1)
          IN  asppRun = [NoAsppRun EXCEPT
                  !.pc = "branches", !.x0 = x, !.x = x,
                  !.outs = [i \in 1 .. Len(BranchPaths(modules)) |-> PendingTensor]]

\* one branch of self.branches(x)
AsppEvalBranch(i) ==
    /\ asppRun.pc = "branches"
    /\ i \in 1 .. Len(asppRun.outs)
    /\ asppRun.outs[i].status = "pending"
    /\ asppRun' = [asppRun EXCEPT
           !.outs[i] = BranchForward(modules, BranchPaths(modules)[i], wv, asppRun.x),
           !.done = Append(asppRun.done, i)]
    /\ UNCHANGED <<buildVars, callVars, avgRun>>

AsppBranch == \E i \in 1 .. NumBranches : AsppEvalBranch(i)

\* the concatenation that ends self.branches(x)
AsppConcat ==
    /\ asppRun.pc = "branches"
    /\ \A i \in 1 .. Len(asppRun.outs) : asppRun.outs[i].status # "pending"
    /\ asppRun' = [asppRun EXCEPT !.cat = Cat(asppRun.outs), !.pc = "project"]
    /\ UNCHANGED <<buildVars, callVars, avgRun>>

\* x = self.conv(x); x = self.dropout(x)
AsppProject ==
    /\ asppRun.pc = "project"
    /\ asppRun' = [asppRun EXCEPT
           !.out = Dropout2dForward(Mod(modules, <<"pool", "dropout">>), training, "draw_a",
                       Conv2dForward(Mod(modules, <<"pool", "conv">>), wv, asppRun.cat)),
           !.pc = "refine"]
    /\ UNCHANGED <<buildVars, callVars, avgRun>>

\* DeepLabv3.forward: x = self.conv1(x)
HeadRefine ==
    /\ asppRun.pc = "refine"
    /\ asppRun' = [asppRun EXCEPT
           !.refine = ConvBlockForward(modules, <<"conv1">>, wv, asppRun.out),
           !.pc = "done"]
    /\ UNCHANGED <<buildVars, callVars, avgRun>>

NextAspp ==
    \/ AsppBranch
    \/ AsppConcat
    \/ AsppProject
    \/ HeadRefine

SpecAspp == InitAspp /\ [][NextAspp]_vars

\* the stepwise evaluation computes what AsppForward computes
AsppRunMatchesForward ==
    asppRun.pc \in {"refine", "done"} =>
        [branches |-> asppRun.outs, cat |-> asppRun.cat, out |-> asppRun.out]
            = AsppForward(modules, training, wv, "draw_a", asppRun.x0)

----------------------------------------------------------------------------
(* The average-pool branch on the values of one (batch, channel) plane.      *)
(* Values are exact rationals <<numerator, denominator>> in lowest terms.    *)

Abs(n) == IF n < 0 THEN -n ELSE n

RECURSIVE GCD(_, _)
GCD(a, b) == IF b = 0 THEN a ELSE GCD(b, a % b)

Norm(n, d) == LET g == GCD(Abs(n), d) IN <<n \div g, d \div g>>

RInt(n) == <<n, 1>>

RAdd(a, b) == Norm(a[1] * b[2] + b[1] * a[2], a[2] * b[2])

RMul(a, b) == Norm(a[1] * b[1], a[2] * b[2])

RECURSIVE RSum(_)
RSum(q) == IF q = << >> THEN RInt(0) ELSE RAdd(Head(q), RSum(Tail(q)))

\* the bin of output index i (from 0) of an adaptive pool from n to o cells
BinStart(n, o, i) == (i * n) \div o

BinEnd(n, o, i) == ((i + 1) * n + o - 1) \div o

\* nn.AdaptiveAvgPool2d(o) on one plane
AdaptiveAvgPoolPlane(pl, o) ==
    LET hh == Len(pl)
        ww == Len(pl[1])
        Avg(i, j) ==
            LET r0 == BinStart(hh, o, i)
                nr == BinEnd(hh, o, i) - r0
                c0 == BinStart(ww, o, j)
                nc == BinEnd(ww, o, j) - c0
                cells == [k \in 1 .. nr * nc |->
                             pl[r0 + 1 + ((k - 1) \div nc)][c0 + 1 + ((k - 1) % nc)]]
            IN  RMul(RSum(cells), <<1, nr * nc>>)
    IN  [i \in 1 .. o |-> [j \in 1 .. o |-> Avg(i - 1, j - 1)]]

\* conv1x1_block on one plane: 1x1 convolution, normalization, ReLU
ConvBlockValue(weight, shift, v) ==
    LET y == RAdd(RMul(RInt(weight), v), RInt(shift))
    IN  IF y[1] < 0 THEN RInt(0) ELSE y

\* bilinear interpolation, align_corners=True: the source position of output
\* index d (from 0) is d * (in - 1) / (out - 1), and 0 when out = 1
Lerp(a, b, f) == RAdd(RMul(Norm(f[2] - f[1], f[2]), a), RMul(f, b))

BilinearAlignCorners(pl, oh, ow) ==
    LET ih == Len(pl)
        iw == Len(pl[1])
        Den(o) == IF o > 1 THEN o - 1 ELSE 1
        Num(d, i, o) == IF o > 1 THEN d * (i - 1) ELSE 0
        Lo(d, i, o) == Num(d, i, o) \div Den(o)
        Hi(d, i, o) == IF Lo(d, i, o) < i - 1 THEN Lo(d, i, o) + 1 ELSE Lo(d, i, o)
        Frac(d, i, o) == Norm(Num(d, i, o) % Den(o), Den(o))
        At(y, x) ==
            LET y0 == Lo(y, ih, oh) + 1
                y1 == Hi(y, ih, oh) + 1
                x0 == Lo(x, iw, ow) + 1
                x1 == Hi(x, iw, ow) + 1
                fx == Frac(x, iw, ow)
            IN  Lerp(Lerp(pl[y0][x0], pl[y0][x1], fx),
                     Lerp(pl[y1][x0], pl[y1][x1], fx), Frac(y, ih, oh))
    IN  [y \in 1 .. oh |-> [x \in 1 .. ow |-> At(y - 1, x - 1)]]

MaxSide == 2

PixelValues == {0, 1}

ConvWeights == {-1, 1, 2}

NormShifts == {0, 1}

InitAvg ==
    /\ \E a \in AsppArgs : Returned(a)
    /\ training = FALSE
    /\ wv = 0
    /\ last = NoCall
    /\ ref = NoRef
    /\ asppRun = NoAsppRun
    /\ \E h \in 1 .. MaxSide, w \in 1 .. MaxSide, b \in 1 .. MaxBatch :
       \E px \in [1 .. h -> [1 .. w -> PixelValues]] :
       \E wt \in ConvWeights, sh \in NormShifts :
          LET conv == Mod(modules, <<"pool", "branches", "branch5", "conv", "conv">>)
              pl == [y \in 1 .. h |-> [x \in 1 .. w |-> RInt(px[y][x])]]
          IN  avgRun = [pc |-> "size", b |-> b, c |-> conv.geom.cin, input |-> pl,
                        plane |-> pl, pre |-> << >>, weight |-> wt, shift |-> sh,
                        size |-> <<0, 0>>, cout |-> conv.geom.cout]

\* _, _, h, w = x.size()
AvgSize ==
    /\ avgRun.pc = "size"
    /\ avgRun' = [avgRun EXCEPT
           !.size = <<Len(avgRun.plane), Len(avgRun.plane[1])>>, !.pc = "pool"]
    /\ UNCHANGED <<buildVars, callVars, asppRun>>

\* x = self.pool(x)
AvgPool ==
    /\ avgRun.pc = "pool"
    /\ avgRun' = [avgRun EXCEPT
           !.plane = AdaptiveAvgPoolPlane(avgRun.plane, PoolOutputSize), !.pc = "conv"]
    /\ UNCHANGED <<buildVars, callVars, asppRun>>

\* x = self.conv(x)
AvgConv ==
    /\ avgRun.pc = "conv"
    /\ avgRun' = [avgRun EXCEPT
           !.plane = [y \in 1 .. Len(avgRun.plane) |->
                        [x \in 1 .. Len(avgRun.plane[y]) |->
                            ConvBlockValue(avgRun.weight, avgRun.shift, avgRun.plane[y][x])]],
           !.c = avgRun.cout,
           !.pc = "interpolate"]
    /\ UNCHANGED <<buildVars, callVars, asppRun>>

\* x = F.interpolate(x, size=(h, w), mode="bilinear", align_corners=True)
AvgInterpolate ==
    /\ avgRun.pc = "interpolate"
    /\ avgRun' = [avgRun EXCEPT
           !.pre = avgRun.plane,
           !.plane = LET sz == AvgUpsampleSize(avgRun.size[1], avgRun.size[2])
                     IN  BilinearAlignCorners(avgRun.plane, sz[1], sz[2]),
           !.pc = "done"]
    /\ UNCHANGED <<buildVars, callVars, asppRun>>

NextAvg ==
    \/ AvgSize
    \/ AvgPool
    \/ AvgConv
    \/ AvgInterpolate

SpecAvg == InitAvg /\ [][NextAvg]_vars

----------------------------------------------------------------------------
(* Properties of the factory path *)

Range(f) == {f[i] : i \in DOMAIN f}

\* DeepLabv3.__init__ ran to its end
Built ==
    \/ pc \in {"constructed", "download", "return", "done"}
    \/ pc = "raised" /\ err \in {"ValueError", "LoaderError"}

\* C2: with backbone_out_channels not divisible by 8 the ASPP constructor raises
\* before it creates any branch, projection or dropout submodule; the head's
\* construction never completes, no module of the ASPP or after it is registered
\* on the head, and no model is returned.
C2_IndivisibleChannelsFailConstruction ==
    (args.backbone_out_channels % 8 # 0) =>
        /\ asppMods = << >>
        /\ \A i \in 1 .. Len(modules) : modules[i].owner \notin {"pool", "head"}
        /\ pc \in {"factory", "head_assert", "head_backbone", "aspp_assert", "raised"}
        /\ ~Built /\ ~returned /\ ~last.called
        /\ (pc = "raised" => err = "AssertionError")

C2_Witness ==
    /\ pc = "raised" /\ err = "AssertionError"
    /\ args.backbone_out_channels = 7 /\ args.in_channels > 0
    /\ Len(modules) = Len(backbone) + 1 /\ backbone # << >>

\* C3: in get_deeplabv3, pretrained with a None or empty model_name raises, never
\* calls the loader and returns no model; without pretrained the loader is never
\* called and no load error is raised whatever model_name is; pretrained with a
\* non-empty model_name calls the loader exactly once, on the constructed net,
\* with that name and the given root.
C3_PretrainedLoadContract ==
    LET missing == args.model_name \in {PyNone, PyStr("")}
        ended == pc \in {"done", "raised"}
    IN  /\ Len(loaderCalls) <= 1
        /\ (args.pretrained /\ missing) =>
              /\ loaderCalls = << >> /\ ~returned
              /\ ended => err # "none"
              /\ (ended /\ Built) => err = "ValueError"
        /\ ~args.pretrained =>
              /\ loaderCalls = << >> /\ err \notin {"ValueError", "LoaderError"}
              /\ (pc = "done" /\ Built) => returned /\ err = "none"
        /\ (args.pretrained /\ ~missing /\ ended /\ Built) =>
              loaderCalls = << [net |-> "net", model_name |-> args.model_name.s,
                                root |-> args.root] >>

C3_Witness ==
    /\ pc = "raised" /\ err = "ValueError" /\ args.pretrained
    /\ args.model_name = PyStr("") /\ loaderCalls = << >> /\ ~returned
    /\ "init_params" \in Range(events)

\* C5: when construction of the head completes, every convolution of the model
\* (the backbone's included) has been initialized exactly once: its weight is
\* Kaiming-uniform and its bias, if present, zero; no other module is touched.
C5_InitPolicyOncePerConvolution ==
    /\ \A i \in 1 .. Len(modules) : modules[i].inits <= 1
    /\ Built =>
          \A i \in 1 .. Len(modules) :
              LET m == modules[i]
                  loaded == "model_load" \in Range(events)
              IN  IF m.kind = "Conv2d"
                  THEN /\ m.inits = 1
                       /\ ~loaded => /\ m.weight = "kaiming_uniform"
                                     /\ m.bias \in {"absent", "zero"}
                                     /\ (m.owner = "backbone" =>
                                            (m.bias = "absent") = (backbone[i - 1].bias = "absent"))
                  ELSE /\ m.inits = 0
                       /\ ~loaded =>
                             IF m.owner = "backbone"
                             THEN m = backbone[i - 1]
                             ELSE m.weight \in {"absent", "default"}
                                  /\ m.bias \in {"absent", "default"}

C5_Witness ==
    /\ pc = "constructed"
    /\ \E i \in 1 .. Len(modules) :
          /\ modules[i].kind = "Conv2d" /\ modules[i].bias = "zero"
          /\ modules[i].weight = "kaiming_uniform" /\ modules[i].inits = 1
    /\ \E i \in 1 .. Len(modules) :
          modules[i].kind = "BatchNorm2d" /\ modules[i].weight = "pretrained_backbone"

EventRank(e) ==
    CASE e = "backbone_load" -> 1 [] e = "init_params" -> 2 [] OTHER -> 3

----------------------------------------------------------------------------
(* Properties of the forward call *)

\* C1: a forward call on (B, C, H_in, W_in) returns (B, num_classes, H_in, W_in),
\* whatever the backbone's reduction and the configured in_size; it returns
\* whenever the backbone produces the configured number of channels; num_classes
\* is 21 or 150 for the shipped factories.
C1_OutputShape ==
    /\ attrs.num_classes = args.num_classes
    /\ args.num_classes = (IF args.entry = "deeplabv3_resnet50_ade20k" THEN 150 ELSE 21)
    /\ last.called =>
          /\ (last.feat.c = args.backbone_out_channels) => last.out.status = "ok"
          /\ (last.out.status = "ok") =>
                /\ last.out.b = last.x.b
                /\ last.out.c = args.num_classes
                /\ last.out.h = last.x.h
                /\ last.out.w = last.x.w

C1_Witness ==
    /\ last.called /\ last.out.status = "ok"
    /\ last.x.h = 100 /\ last.x.w = 1 /\ last.x.b = 2
    /\ attrs.in_size = <<224, 224>>
    /\ last.feat.h = 7 /\ last.feat.w = 1
    /\ last.out.c = 150

\* C6: the ASPP module has five branches of in_channels/8 channels each, the
\* concatenated tensor has 5 * (in_channels/8) channels, which is the declared
\* input of the projection, and the module's output has in_channels/8 channels,
\* which is the declared input of the head's refine and classifier convolutions.
C6_ChannelBookkeeping ==
    LET c == args.backbone_out_channels
        mid == c \div 8
    IN  /\ c % 8 = 0
        /\ Len(BranchPaths(modules)) = 5
        /\ Mod(modules, <<"pool", "conv">>).geom.cin = 5 * mid
        /\ Mod(modules, <<"pool", "conv">>).geom.cout = mid
        /\ Mod(modules, <<"conv1", "conv">>).geom.cin = mid
        /\ Mod(modules, <<"conv1", "conv">>).geom.cout = mid
        /\ Mod(modules, <<"conv2">>).geom.cin = mid
        /\ (last.called /\ last.feat.status = "ok" /\ last.feat.c = c) =>
              /\ Len(last.branches) = 5
              /\ \A i \in 1 .. 5 : last.branches[i].status = "ok" /\ last.branches[i].c = mid
              /\ last.cat.status = "ok" /\ last.cat.c = 5 * mid
              /\ last.aspp.status = "ok" /\ last.aspp.c = mid
              /\ last.refine.status = "ok" /\ last.refine.c = mid

C6_Witness ==
    /\ last.called /\ args.backbone_out_channels = 2048
    /\ last.cat.status = "ok" /\ last.cat.c = 1280
    /\ last.aspp.c = 256 /\ last.refine.c = 256

\* C4: a forward call changes nothing on the module (no attribute, no weight, not
\* the mode), and in inference mode with the same weights two calls on the same
\* input return the same output, whatever calls were made in between.
C4_ForwardStep ==
    /\ (last' # last) =>
          /\ attrs' = attrs /\ modules' = modules /\ args' = args
          /\ training' = training /\ wv' = wv
    /\ (ref'.called /\ last'.called /\ ~last'.training /\ ~ref'.training
            /\ last'.x = ref'.x /\ last'.wv = ref'.wv)
          => last'.out = ref'.out

----------------------------------------------------------------------------
(* Properties of the ASPP evaluation and of the average-pool branch *)

\* C8: for every feature size H, W >= 1, also below the dilation, each of the five
\* branch outputs has spatial size exactly (H, W) and the batch of the input, so
\* the concatenation succeeds with that size, and the projection and the refine
\* 3x3 convolution with padding 1 keep it.
C8_BranchesPreserveSize ==
    LET r == asppRun
        Same(t) == t.status = "ok" /\ t.b = r.x0.b /\ t.h = r.x0.h /\ t.w = r.x0.w
    IN  /\ \A i \in 1 .. Len(r.outs) : r.outs[i].status # "pending" => Same(r.outs[i])
        /\ r.pc \in {"project", "refine", "done"} => Same(r.cat)
        /\ r.pc \in {"refine", "done"} => Same(r.out)
        /\ r.pc = "done" => Same(r.refine)

C8_Witness ==
    /\ asppRun.pc = "done" /\ asppRun.refine.status = "ok"
    /\ asppRun.x0.h = 5 /\ asppRun.x0.w = 37
    /\ asppRun.refine.h = 5 /\ asppRun.refine.w = 37
    /\ \A i \in 1 .. 5 : asppRun.outs[i].h = 5 /\ asppRun.outs[i].w = 37

\* C9: every branch reads the module's unmodified input and nothing of another
\* branch; the concatenation happens only once all five branches have finished,
\* and it holds the outputs of the 1x1 branch, the rate-12, rate-24 and rate-36
\* branches and the average-pool branch in that order along the channel axis,
\* whatever the order in which the branches finished.
C9_ConcatInDeclaredOrder ==
    LET r == asppRun
        B(i) == <<"pool", "branches", BranchName(i)>>
        G(i) == Mod(modules, Append(B(i), "conv")).geom
    IN  /\ r.x = r.x0
        /\ Len(r.outs) = 5
        /\ \A i \in 1 .. Len(r.outs) :
              r.outs[i].status # "pending" =>
                  \/ r.outs[i].val.in = <<r.x0.val>>
                  \/ r.outs[i].val.in[1].in[1].in = <<r.x0.val>>
                  \/ r.outs[i].val.in[1].in[1].in[1].in[1].in = <<r.x0.val>>
        /\ r.pc \in {"project", "refine", "done"} =>
              /\ Range(r.done) = 1 .. 5 /\ Len(r.done) = 5
              /\ r.cat.status = "ok"
              /\ r.cat.val.op = "cat"
              /\ r.cat.val.in = [i \in 1 .. 5 |-> r.outs[i].val]
              /\ \A i \in 1 .. 4 : r.cat.val.in[i].path = Append(B(i), "activ")
              /\ G(1).k = 1 /\ G(1).dil = 1
              /\ G(2).k = 3 /\ G(2).dil = 12
              /\ G(3).k = 3 /\ G(3).dil = 24
              /\ G(4).k = 3 /\ G(4).dil = 36
              /\ r.cat.val.in[5].op = "interpolate"
              /\ r.cat.val.in[5].in[1].path = <<"pool", "branches", "branch5", "conv", "activ">>

C9_Witness ==
    /\ asppRun.pc = "project"
    /\ asppRun.done = <<5, 3, 1, 4, 2>>
    /\ asppRun.cat.status = "ok"
    /\ asppRun.cat.val.in[2].path = <<"pool", "branches", "branch2", "activ">>
    /\ asppRun.cat.val.in[5].op = "interpolate"

\* C7: the average-pool branch maps a plane of size (H, W) to a plane of size
\* (H, W) with the batch of the input and out_channels channels; after the pool
\* the plane is 1 x 1 and holds the mean of the input, and after the 1x1 conv
\* block and the corner-aligned bilinear upsample every position holds the value
\* the single pre-upsample cell held.
C7_AvgBranchConstantField ==
    LET r == avgRun
        conv == Mod(modules, <<"pool", "branches", "branch5", "conv", "conv">>)
        hh == Len(r.input)
        ww == Len(r.input[1])
        cells == [k \in 1 .. hh * ww |-> r.input[1 + ((k - 1) \div ww)][1 + ((k - 1) % ww)]]
    IN  /\ r.pc = "conv" =>
              /\ Len(r.plane) = 1 /\ Len(r.plane[1]) = 1 /\ r.c = conv.geom.cin
              /\ r.plane[1][1] = RMul(RSum(cells), <<1, hh * ww>>)
        /\ r.pc = "interpolate" =>
              Len(r.plane) = 1 /\ Len(r.plane[1]) = 1 /\ r.c = conv.geom.cout
        /\ r.pc = "done" =>
              /\ Len(r.pre) = 1 /\ Len(r.pre[1]) = 1
              /\ Len(r.plane) = hh
              /\ r.c = conv.geom.cout
              /\ \A y \in 1 .. Len(r.plane) :
                    /\ Len(r.plane[y]) = ww
                    /\ \A x \in 1 .. Len(r.plane[y]) : r.plane[y][x] = r.pre[1][1]

C7_Witness ==
    /\ avgRun.pc = "done"
    /\ Len(avgRun.input) = 2 /\ Len(avgRun.input[1]) = 2
    /\ avgRun.input[1][1] # avgRun.input[2][2]
    /\ avgRun.weight = 2 /\ avgRun.shift = 1
    /\ avgRun.pre = << << <<5, 2>> >> >>
    /\ avgRun.plane[1][2] = <<5, 2>> /\ avgRun.plane[2][1] = <<5, 2>>

====
